---------------------------- MODULE Spec2Model ----------------------------
(***************************************************************************)
(* Cross-CPU page benchmark (page_bench05_cross_cpu.c).                    *)
(*                                                                         *)
(* run_timing_tests runs three scenarios in order: the single-CPU compare  *)
(* loop, the ptr_ring baseline (fake pointers) and the cross-CPU page      *)
(* alloc/put scenario (real pages).  The two cross-CPU scenarios build a   *)
(* ptr_ring, prefill it, run one worker on CPU 0 (even: enqueue side) and  *)
(* one on CPU 1 (odd: dequeue side), then clean the ring up.               *)
(*                                                                         *)
(* ptr_ring (linux/ptr_ring.h) and time_bench (linux/time_bench.h) are     *)
(* not part of the benchmark's source file; they are modelled from their   *)
(* contract.                                                               *)
(***************************************************************************)
EXTENDS Integers, Sequences, FiniteSets, TLC

\* ---------------------------------------------------------------- bounds
MaxLoops == 3       \* largest small loop count drawn for `loops`
MaxQSize == 3       \* largest q_size drawn
MaxPrefill == 4     \* largest prefill drawn (may exceed q_size)
MaxIter == 2        \* iterations followed per worker at the guard threshold

\* ------------------------------------------------------- program constants
NULL == 0                       \* a failed alloc_pages / an empty ring slot
FAKE_PREFILL == 42              \* init_queue: (struct page *) 42
FAKE_PAGE == 43                 \* time_cross_cpu_ptr_ring: (struct page *) 43
ENOSPC == 28                    \* ptr_ring_produce returns -ENOSPC when full
ALL_FLAGS == 7                  \* the three benchmark bits of run_flags
bit_run_bench_order0_compare == 0
bit_run_bench_ptr_ring_baseline == 1
bit_run_bench_cross_cpu_page_alloc_put == 2
LIMB == 65536                   \* a uint32_t is kept as two 16-bit limbs

CPUS == {0, 1}                  \* cpumask_set_cpu(0), cpumask_set_cpu(1)

\* ------------------------------------------------------------- arithmetic
\* uint32_t values are records [hi, lo] of 16-bit limbs, so that 2^31 and
\* 2^32-1 are representable.
U32(n) == [hi |-> n \div LIMB, lo |-> n % LIMB]

\* (uint64_t)l * 2 as limbs <<l2, l1, l0>> (the product is below 2^33).
Mul2_u64(l) ==
    LET lo2 == l.lo * 2
        hi2 == l.hi * 2 + (lo2 \div LIMB)
    IN  <<hi2 \div LIMB, hi2 % LIMB, lo2 % LIMB>>

\* a >= (1ULL << 32) - 1, a given as limbs <<l2, l1, l0>>
GeU32Max(a) == a[1] > 0 \/ (a[2] = LIMB - 1 /\ a[3] = LIMB - 1)

\* Variant of LoopsTooBig: rec->loops itself is compared, the `* 2` left
\* out.
LoopsTooBig_not_doubled(l) == GeU32Max(<<0, l.hi, l.lo>>)
\* Variant of LoopsTooBig: the product taken in 32 bits, the (uint64_t)
\* cast left out.
LoopsTooBig_32bit(l) ==
    GeU32Max(<<0, (l.hi * 2 + (l.lo * 2) \div LIMB) % LIMB, (l.lo * 2) % LIMB>>)
\* lines 118-122 / 180-184: the loop-count guard of the cross-CPU workers
LoopsTooBig(l) == GeU32Max(Mul2_u64(l))

\* i < rec->loops, with int i >= 0 below 2^16 converted to unsigned
LoopLess(i, l) == l.hi > 0 \/ i < l.lo

\* run_flags & bit(b)
RECURSIVE Pow2(_)
Pow2(b) == IF b = 0 THEN 1 ELSE 2 * Pow2(b - 1)
\* Variant of FlagSet: run_flags & b, the bit number taken for the mask
\* (for the bit numbers 0, 1, 2 of the enum).
FlagSet_number_as_mask(flags, b) == b > 0 /\ (flags \div b) % 2 = 1
FlagSet(flags, b) == (flags \div Pow2(b)) % 2 = 1

\* ---------------------------------------------------------------- ptr_ring
\* struct ptr_ring after kzalloc (all zero) and after kfree.
ZeroRing == [size |-> 0, queue |-> <<>>, producer |-> 0, consumer |-> 0]

\* ptr_ring_init(r, size, gfp): an array of `size` NULL slots; fails with
\* no array when the allocation fails.  Slots are numbered 1..size.
ptr_ring_init(size, ok) ==
    IF ok
    THEN [ret |-> 0,
          r |-> [size |-> size, queue |-> [k \in 1..size |-> NULL],
                 producer |-> 0, consumer |-> 0]]
    ELSE [ret |-> -1, r |-> ZeroRing]

\* __ptr_ring_produce: -ENOSPC if the ring has no slots or the slot at
\* `producer` is occupied; otherwise store ptr and advance producer.
ptr_ring_produce(r, ptr) ==
    IF r.size = 0 \/ r.queue[r.producer + 1] # NULL
    THEN [ret |-> -ENOSPC, r |-> r]
    ELSE [ret |-> 0,
          r |-> [r EXCEPT !.queue[r.producer + 1] = ptr,
                          !.producer = (r.producer + 1) % r.size]]

\* __ptr_ring_consume: the pointer at `consumer`, NULL if the slot is
\* empty; a non-NULL slot is cleared and consumer advances.
ptr_ring_consume(r) ==
    LET ptr == IF r.size = 0 THEN NULL ELSE r.queue[r.consumer + 1]
    IN  IF ptr = NULL
        THEN [ptr |-> NULL, r |-> r]
        ELSE [ptr |-> ptr,
              r |-> [r EXCEPT !.queue[r.consumer + 1] = NULL,
                              !.consumer = (r.consumer + 1) % r.size]]

\* ptr_ring_cleanup(r, destroy): with a destroy callback, consume until the
\* first NULL and call destroy on each pointer; then free the array.
\* Returns the sequence of pointers handed to destroy.
RECURSIVE DrainSeq(_)
DrainSeq(r) ==
    LET c == ptr_ring_consume(r)
    IN  IF c.ptr = NULL THEN <<>> ELSE <<c.ptr>> \o DrainSeq(c.r)
ptr_ring_cleanup(r, destroy) == IF destroy THEN DrainSeq(r) ELSE <<>>

\* Number of occupied slots of a ring.
Live(r) == Cardinality({k \in 1..r.size : r.queue[k] # NULL})


\* ------------------------------------------------------------------ state
VARIABLES
    loops,          \* module parameter `loops` (uint32_t, as limbs)
    run_flags,      \* module parameter `run_flags`
    q_size,         \* q_size handed to the scenarios
    prefill,        \* prefill handed to the scenarios
    main_pc,        \* position of run_timing_tests
    queue,          \* the scenario's struct ptr_ring
    producer_lock,  \* queue->producer_lock is held
    consumer_lock,  \* queue->consumer_lock is held
    tasks,          \* cpu_tasks: per CPU, the kthread and its time_bench_record
    page_refs,      \* pages allocated by the running scenario: page id -> refcount
    produced,       \* pointers of the successful produces on `queue`, in order
    consumed,       \* pointers returned by the workers' successful consumes
    destroyed,      \* pointers handed to the destroy callback by ptr_ring_cleanup
    report          \* what the scenario printed: per CPU its record

vars == <<loops, run_flags, q_size, prefill, main_pc, queue, producer_lock,
          consumer_lock, tasks, page_refs, produced, consumed, destroyed,
          report>>

config == <<loops, run_flags, q_size, prefill>>

\* kzalloc'ed time_bench_cpu: no kthread yet.
NoTask == [pc |-> "none", loops |-> U32(0), step |-> 0, i |-> 0,
           loops_cnt |-> 0, page |-> NULL, started |-> FALSE,
           stopped |-> FALSE, invoked_cnt |-> 0, ret |-> 0, exit |-> "none"]

\* Loop counts drawn: the small ones, and 2^31, which trips the guard.
BigLoops == [hi |-> LIMB \div 2, lo |-> 0]
LoopsSet == {U32(n) : n \in 0..MaxLoops} \cup {BigLoops}

Init ==
    /\ loops \in LoopsSet
    /\ run_flags \in 0..ALL_FLAGS
    \* the single-CPU compare loop is stepped for small loop counts only
    /\ loops.hi > 0 => ~FlagSet(run_flags, bit_run_bench_order0_compare)
    /\ q_size \in 1..MaxQSize
    /\ prefill \in 0..MaxPrefill
    /\ main_pc = "order0"
    /\ queue = ZeroRing
    /\ producer_lock = FALSE
    /\ consumer_lock = FALSE
    /\ tasks = [c \in CPUS |-> NoTask]
    /\ page_refs = <<>>
    /\ produced = <<>>
    /\ consumed = <<>>
    /\ destroyed = <<>>
    /\ report = <<>>

\* ------------------------------------------------------------------ pages
\* alloc_pages: a fresh page with refcount 1 (its id is its index).
alloc_pages(refs) == [page |-> Len(refs) + 1, refs |-> Append(refs, 1)]
\* put_page: drop one reference.
put_page(refs, page) == [refs EXCEPT ![page] = @ - 1]
\* put_page on each pointer of a sequence (destructor_put_page, lines 311-314)
RECURSIVE destructor_put_page(_, _)
destructor_put_page(refs, ptrs) ==
    IF ptrs = <<>> THEN refs
    ELSE destructor_put_page(put_page(refs, Head(ptrs)), Tail(ptrs))

\* ------------------------------------------------- single-CPU compare loop
\* time_single_cpu_page_alloc_put (lines 50-67): fail_at = 0, every
\* alloc_pages succeeds; fail_at = j, the j-th returns NULL and the function
\* returns 0 without time_bench_stop.
single_cpu_refs(n) == [k \in 1..n |-> 0]
time_single_cpu_page_alloc_put(rec_loops, fail_at) ==
    IF fail_at = 0
    THEN [refs |-> single_cpu_refs(rec_loops.lo),
          rec |-> [cpu |-> 0, step |-> 0, loops |-> rec_loops,
                   invoked_cnt |-> rec_loops.lo, stopped |-> TRUE,
                   ret |-> rec_loops.lo]]
    ELSE [refs |-> single_cpu_refs(fail_at - 1),
          rec |-> [cpu |-> 0, step |-> 0, loops |-> rec_loops,
                   invoked_cnt |-> 0, stopped |-> FALSE, ret |-> 0]]

\* run_bench_order0_compare (lines 69-75)
run_bench_order0_compare ==
    /\ main_pc = "order0"
    /\ main_pc' = "baseline"
    /\ IF ~FlagSet(run_flags, bit_run_bench_order0_compare)
       THEN UNCHANGED <<page_refs, report>>
       ELSE \E fail_at \in 0..loops.lo :
               LET t == time_single_cpu_page_alloc_put(loops, fail_at)
               IN  /\ page_refs' = t.refs
                   /\ report' = <<t.rec>>
    /\ UNCHANGED <<config, queue, producer_lock, consumer_lock, tasks,
                   produced, consumed, destroyed>>


\* -------------------------------------------------------------- init_queue
\* Variant of prefill_loop: the result of ptr_ring_produce is not tested.
RECURSIVE prefill_loop_produce_unchecked(_, _, _, _, _, _, _)
prefill_loop_produce_unchecked(r, i, n, fake_ptr, fail_at, refs, hist) ==
    IF i >= n
    THEN [ok |-> TRUE, r |-> r, refs |-> refs, hist |-> hist]
    ELSE IF ~fake_ptr /\ fail_at = i + 1
    THEN [ok |-> FALSE, r |-> r, refs |-> refs, hist |-> hist]
    ELSE LET a == IF fake_ptr
                  THEN [page |-> FAKE_PREFILL, refs |-> refs]
                  ELSE alloc_pages(refs)
             p == ptr_ring_produce(r, a.page)
         IN  prefill_loop_produce_unchecked(
                 p.r, i + 1, n, fake_ptr, fail_at, a.refs,
                 IF p.ret < 0 THEN hist ELSE Append(hist, a.page))
\* The prefill loop of init_queue (lines 264-278), from iteration i on.
\* fail_at = j > 0: the j-th alloc_pages returns NULL.  `hist` collects the
\* pointers produced.
RECURSIVE prefill_loop(_, _, _, _, _, _, _)
prefill_loop(r, i, n, fake_ptr, fail_at, refs, hist) ==
    IF i >= n
    THEN [ok |-> TRUE, r |-> r, refs |-> refs, hist |-> hist]
    ELSE IF ~fake_ptr /\ fail_at = i + 1
    THEN [ok |-> FALSE, r |-> r, refs |-> refs, hist |-> hist]
    ELSE LET a == IF fake_ptr
                  THEN [page |-> FAKE_PREFILL, refs |-> refs]
                  ELSE alloc_pages(refs)
             p == ptr_ring_produce(r, a.page)
         IN  IF p.ret < 0
             THEN [ok |-> FALSE, r |-> r, refs |-> a.refs, hist |-> hist]
             ELSE prefill_loop(p.r, i + 1, n, fake_ptr, fail_at, a.refs,
                               Append(hist, a.page))

\* Variant of init_queue: the prefill loop runs one time too many
\* (i <= prefill for i < prefill at line 264).
init_queue_prefill_off_by_one(size, n, fake_ptr, ring_ok, fail_at) ==
    LET init == ptr_ring_init(size, ring_ok)
    IN  IF init.ret < 0
        THEN [ok |-> FALSE, r |-> init.r, refs |-> <<>>, hist |-> <<>>]
        ELSE prefill_loop(init.r, 0, n + 1, fake_ptr, fail_at, <<>>, <<>>)
\* Variant of init_queue: ptr_ring_init is given prefill for q_size.
init_queue_size_from_prefill(size, n, fake_ptr, ring_ok, fail_at) ==
    LET init == ptr_ring_init(n, ring_ok)
    IN  IF init.ret < 0
        THEN [ok |-> FALSE, r |-> init.r, refs |-> <<>>, hist |-> <<>>]
        ELSE prefill_loop(init.r, 0, n, fake_ptr, fail_at, <<>>, <<>>)
\* init_queue (lines 239-281): ring_ok, whether ptr_ring_init's allocation
\* succeeds.
init_queue(size, n, fake_ptr, ring_ok, fail_at) ==
    LET init == ptr_ring_init(size, ring_ok)
    IN  IF init.ret < 0
        THEN [ok |-> FALSE, r |-> init.r, refs |-> <<>>, hist |-> <<>>]
        ELSE prefill_loop(init.r, 0, n, fake_ptr, fail_at, <<>>, <<>>)

\* ---------------------------------------------------------- time_bench
\* time_bench_run_concurrent, up to the start event: for each CPU of the
\* mask the record is cleared, loops and step are set and the kthread is
\* started; all kthreads are released together.
time_bench_run_concurrent(rec_loops, step) ==
    [c \in CPUS |-> [NoTask EXCEPT !.pc = "start", !.loops = rec_loops,
                                   !.step = step]]

\* time_bench_start / time_bench_stop on a record
time_bench_start(t) == [t EXCEPT !.started = TRUE]
time_bench_stop(t, invoked_cnt) ==
    [t EXCEPT !.stopped = TRUE, !.invoked_cnt = invoked_cnt]

\* time_bench_print_stats_cpumask: one line per CPU of the mask
time_bench_print_stats_cpumask(ts) ==
    [k \in 1..2 |-> [cpu |-> k - 1, step |-> ts[k - 1].step,
                     loops |-> ts[k - 1].loops,
                     invoked_cnt |-> ts[k - 1].invoked_cnt,
                     stopped |-> ts[k - 1].stopped, ret |-> ts[k - 1].ret]]

\* All kthreads of the run have returned from the timed function.
AllDone == \A c \in CPUS : tasks[c].pc = "done"

\* Line 307: ptr_ring_cleanup(queue, NULL), no destroy callback.
baseline_cleanup(r) == ptr_ring_cleanup(r, FALSE)

\* Variant of page_alloc_put_cleanup: NULL for the destroy callback, as
\* in the baseline scenario.
page_alloc_put_cleanup_no_destructor(r) == ptr_ring_cleanup(r, FALSE)
\* Line 340: ptr_ring_cleanup(queue, destructor_put_page).
page_alloc_put_cleanup(r) == ptr_ring_cleanup(r, TRUE)

\* ------------------------------------------------ baseline scenario: start
\* run_bench_baseline_ptr_ring_cross_cpu (lines 283-309) up to the start of
\* the workers; on init_queue failure the `fail:` path runs at once.
run_bench_baseline_ptr_ring_cross_cpu ==
    /\ main_pc = "baseline"
    /\ IF ~FlagSet(run_flags, bit_run_bench_ptr_ring_baseline)
       THEN /\ main_pc' = "page_alloc_put"
            /\ UNCHANGED <<queue, tasks, page_refs, produced, consumed,
                           destroyed, report>>
       ELSE \E ring_ok \in BOOLEAN :
               LET q == init_queue(q_size, prefill, TRUE, ring_ok, 0)
               IN  /\ page_refs' = q.refs
                   /\ produced' = q.hist
                   /\ consumed' = <<>>
                   /\ report' = <<>>
                   /\ IF ~q.ok
                      THEN /\ destroyed' = baseline_cleanup(q.r)
                           /\ queue' = ZeroRing
                           /\ tasks' = tasks
                           /\ main_pc' = "page_alloc_put"
                      ELSE /\ destroyed' = <<>>
                           /\ queue' = q.r
                           /\ tasks' = time_bench_run_concurrent(loops, 0)
                           /\ main_pc' = "baseline_run"
    /\ UNCHANGED <<config, producer_lock, consumer_lock>>


\* --------------------------------------------- time_cross_cpu_ptr_ring
\* Variant of enq_CPU: the initial value `true` of line 98 is not
\* overwritten for odd CPUs, so every kthread enqueues.
enq_CPU_always(cpu) == TRUE
\* Split CPU between enq/deq based on even/odd (lines 98-102).
enq_CPU(cpu) == cpu % 2 = 0

\* Lines 98-124: role, rec->step, the loop-count guard, time_bench_start.
\* (queue is never NULL here: both scenarios pass their kzalloc'ed ring.)
ptr_ring_worker_enter(t, cpu) ==
    LET t1 == [t EXCEPT !.step = IF enq_CPU(cpu) THEN 1 ELSE 0,
                        !.page = FAKE_PAGE]
    IN  IF LoopsTooBig(t1.loops)
        THEN [t1 EXCEPT !.pc = "done", !.ret = 0, !.exit = "guard"]
        ELSE [time_bench_start(t1) EXCEPT !.pc = "loop", !.i = 0,
                                          !.loops_cnt = 0]

\* Variant of worker_finish: the finish_early label sits after
\* time_bench_stop.
worker_finish_stop_skipped(t, how) ==
    IF how = "finish_early"
    THEN [t EXCEPT !.pc = "done", !.ret = t.loops_cnt, !.exit = how]
    ELSE [time_bench_stop(t, t.loops_cnt) EXCEPT
              !.pc = "done", !.ret = t.loops_cnt, !.exit = how]
\* Lines 147-150: time_bench_stop and return, reached by `goto
\* finish_early` (how = "finish_early") or by the loop test failing
\* (how = "loop_end").
worker_finish(t, how) ==
    [time_bench_stop(t, t.loops_cnt) EXCEPT
         !.pc = "done", !.ret = t.loops_cnt, !.exit = how]

\* Variant of ptr_ring_worker_enq: a failed ptr_ring_produce is retried
\* until the ring has room, instead of goto finish_early.
ptr_ring_worker_enq_retry(t, r) ==
    LET p == ptr_ring_produce(r, t.page)
    IN  IF p.ret < 0
        THEN [t |-> [t EXCEPT !.pc = "loop"], r |-> p.r, ok |-> FALSE]
        ELSE [t |-> [t EXCEPT !.pc = "loop", !.loops_cnt = @ + 1, !.i = @ + 1],
              r |-> p.r, ok |-> TRUE]
\* Variant of ptr_ring_worker_enq: the result of ptr_ring_produce is not
\* tested.
ptr_ring_worker_enq_unchecked(t, r) ==
    LET p == ptr_ring_produce(r, t.page)
    IN  [t |-> [t EXCEPT !.pc = "loop", !.loops_cnt = @ + 1, !.i = @ + 1],
         r |-> p.r, ok |-> p.ret >= 0]
\* Lines 128-134 and 144-146: the enqueue side of one iteration, run with
\* the producer lock held.
ptr_ring_worker_enq(t, r) ==
    LET p == ptr_ring_produce(r, t.page)
    IN  IF p.ret < 0
        THEN [t |-> worker_finish(t, "finish_early"), r |-> p.r, ok |-> FALSE]
        ELSE [t |-> [t EXCEPT !.pc = "loop", !.loops_cnt = @ + 1, !.i = @ + 1],
              r |-> p.r, ok |-> TRUE]

\* Variant of ptr_ring_worker_deq: npage is not tested for NULL.
ptr_ring_worker_deq_unchecked(t, r) ==
    LET c == ptr_ring_consume(r)
    IN  [t |-> [t EXCEPT !.pc = "loop", !.loops_cnt = @ + 1, !.i = @ + 1],
         r |-> c.r, npage |-> c.ptr]
\* Lines 135-146: the dequeue side of one iteration, run with the consumer
\* lock held.
ptr_ring_worker_deq(t, r) ==
    LET c == ptr_ring_consume(r)
    IN  IF c.ptr = NULL
        THEN [t |-> worker_finish(t, "finish_early"), r |-> c.r, npage |-> NULL]
        ELSE [t |-> [t EXCEPT !.pc = "loop", !.loops_cnt = @ + 1, !.i = @ + 1],
              r |-> c.r, npage |-> c.ptr]

\* The kthread on `cpu` enters time_cross_cpu_ptr_ring.
time_cross_cpu_ptr_ring_enter(cpu) ==
    /\ main_pc = "baseline_run"
    /\ tasks[cpu].pc = "start"
    /\ tasks' = [tasks EXCEPT ![cpu] = ptr_ring_worker_enter(@, cpu)]
    /\ UNCHANGED <<config, main_pc, queue, producer_lock, consumer_lock,
                   page_refs, produced, consumed, destroyed, report>>

\* Variant of time_cross_cpu_ptr_ring_loop: one lock (producer_lock) guards
\* both ends of the ring.
time_cross_cpu_ptr_ring_loop_one_lock(cpu) ==
    /\ main_pc = "baseline_run"
    /\ tasks[cpu].pc = "loop"
    /\ IF ~LoopLess(tasks[cpu].i, tasks[cpu].loops)
       THEN /\ tasks' = [tasks EXCEPT ![cpu] = worker_finish(@, "loop_end")]
            /\ UNCHANGED <<producer_lock, consumer_lock>>
       ELSE /\ ~producer_lock /\ ~consumer_lock
            /\ IF enq_CPU(cpu)
               THEN /\ producer_lock' = TRUE
                    /\ tasks' = [tasks EXCEPT ![cpu].pc = "enq"]
                    /\ UNCHANGED consumer_lock
               ELSE /\ consumer_lock' = TRUE
                    /\ tasks' = [tasks EXCEPT ![cpu].pc = "deq"]
                    /\ UNCHANGED producer_lock
    /\ UNCHANGED <<config, main_pc, queue, page_refs, produced, consumed,
                   destroyed, report>>
\* The loop test of line 126: the next iteration takes its side's lock
\* inside ptr_ring_produce / ptr_ring_consume, or the loop ends.
time_cross_cpu_ptr_ring_loop(cpu) ==
    /\ main_pc = "baseline_run"
    /\ tasks[cpu].pc = "loop"
    /\ IF ~LoopLess(tasks[cpu].i, tasks[cpu].loops)
       THEN /\ tasks' = [tasks EXCEPT ![cpu] = worker_finish(@, "loop_end")]
            /\ UNCHANGED <<producer_lock, consumer_lock>>
       ELSE IF enq_CPU(cpu)
       THEN /\ ~producer_lock
            /\ producer_lock' = TRUE
            /\ tasks' = [tasks EXCEPT ![cpu].pc = "enq"]
            /\ UNCHANGED consumer_lock
       ELSE /\ ~consumer_lock
            /\ consumer_lock' = TRUE
            /\ tasks' = [tasks EXCEPT ![cpu].pc = "deq"]
            /\ UNCHANGED producer_lock
    /\ UNCHANGED <<config, main_pc, queue, page_refs, produced, consumed,
                   destroyed, report>>

\* ptr_ring_produce under the producer lock, and the rest of the iteration.
time_cross_cpu_ptr_ring_enqueue(cpu) ==
    /\ main_pc = "baseline_run"
    /\ tasks[cpu].pc = "enq"
    /\ LET e == ptr_ring_worker_enq(tasks[cpu], queue)
       IN  /\ tasks' = [tasks EXCEPT ![cpu] = e.t]
           /\ queue' = e.r
           /\ produced' = IF e.ok THEN Append(produced, tasks[cpu].page)
                          ELSE produced
    /\ producer_lock' = FALSE
    /\ UNCHANGED <<config, main_pc, consumer_lock, page_refs, consumed,
                   destroyed, report>>

\* ptr_ring_consume under the consumer lock, and the rest of the iteration.
time_cross_cpu_ptr_ring_dequeue(cpu) ==
    /\ main_pc = "baseline_run"
    /\ tasks[cpu].pc = "deq"
    /\ LET d == ptr_ring_worker_deq(tasks[cpu], queue)
       IN  /\ tasks' = [tasks EXCEPT ![cpu] = d.t]
           /\ queue' = d.r
           /\ consumed' = IF d.npage # NULL THEN Append(consumed, d.npage)
                          ELSE consumed
    /\ consumer_lock' = FALSE
    /\ UNCHANGED <<config, main_pc, producer_lock, page_refs, produced,
                   destroyed, report>>

\* ----------------------------------------------- baseline scenario: finish
\* run_parallel's tail (lines 233-236) once every kthread has returned,
\* then the `fail:` path of lines 306-308: ptr_ring_cleanup(queue, NULL)
\* and kfree(queue).
run_bench_baseline_finish ==
    /\ main_pc = "baseline_run"
    /\ AllDone
    /\ report' = time_bench_print_stats_cpumask(tasks)
    /\ tasks' = [c \in CPUS |-> NoTask]
    /\ destroyed' = baseline_cleanup(queue)
    /\ queue' = ZeroRing
    /\ main_pc' = "page_alloc_put"
    /\ UNCHANGED <<config, producer_lock, consumer_lock, page_refs, produced,
                   consumed>>


\* ------------------------------------- cross-CPU page scenario: start
\* run_bench_cross_cpu_page_alloc_put (lines 316-342) up to the start of the
\* workers; on init_queue failure the `fail:` path (lines 339-341) runs at
\* once: ptr_ring_cleanup(queue, destructor_put_page) and kfree(queue).
run_bench_cross_cpu_page_alloc_put ==
    /\ main_pc = "page_alloc_put"
    /\ IF ~FlagSet(run_flags, bit_run_bench_cross_cpu_page_alloc_put)
       THEN /\ main_pc' = "exit"
            /\ UNCHANGED <<queue, tasks, page_refs, produced, consumed,
                           destroyed, report>>
       ELSE \E ring_ok \in BOOLEAN : \E fail_at \in 0..prefill :
               LET q == init_queue(q_size, prefill, FALSE, ring_ok, fail_at)
                   d == page_alloc_put_cleanup(q.r)
               IN  /\ produced' = q.hist
                   /\ consumed' = <<>>
                   /\ report' = <<>>
                   /\ IF ~q.ok
                      THEN /\ destroyed' = d
                           /\ page_refs' = destructor_put_page(q.refs, d)
                           /\ queue' = ZeroRing
                           /\ tasks' = tasks
                           /\ main_pc' = "exit"
                      ELSE /\ destroyed' = <<>>
                           /\ page_refs' = q.refs
                           /\ queue' = q.r
                           /\ tasks' = time_bench_run_concurrent(loops, 0)
                           /\ main_pc' = "page_alloc_put_run"
    /\ UNCHANGED <<config, producer_lock, consumer_lock>>

\* ---------------------------------------- time_cross_cpu_page_alloc_put
\* Lines 164-186: role, rec->step, the loop-count guard, time_bench_start.
page_worker_enter(t, cpu) ==
    LET t1 == [t EXCEPT !.step = IF enq_CPU(cpu) THEN 1 ELSE 0]
    IN  IF LoopsTooBig(t1.loops)
        THEN [t1 EXCEPT !.pc = "done", !.ret = 0, !.exit = "guard"]
        ELSE [time_bench_start(t1) EXCEPT !.pc = "loop", !.i = 0,
                                          !.loops_cnt = 0]

\* Lines 190-197 and 208-210: ptr_ring_produce of the page of line 192
\* (NULL when alloc_pages failed: the result is not tested) and the rest of
\* the iteration.
page_worker_enq(t, r) ==
    LET p == ptr_ring_produce(r, t.page)
    IN  IF p.ret < 0
        THEN [t |-> worker_finish(t, "finish_early"), r |-> p.r, ok |-> FALSE]
        ELSE [t |-> [t EXCEPT !.pc = "loop", !.loops_cnt = @ + 1, !.i = @ + 1],
              r |-> p.r, ok |-> TRUE]

\* Lines 198-210: ptr_ring_consume, put_page of the page taken, and the rest
\* of the iteration.
page_worker_deq(t, r, refs) ==
    LET c == ptr_ring_consume(r)
    IN  IF c.ptr = NULL
        THEN [t |-> worker_finish(t, "finish_early"), r |-> c.r, npage |-> NULL, refs |-> refs]
        ELSE [t |-> [t EXCEPT !.pc = "loop", !.loops_cnt = @ + 1, !.i = @ + 1],
              r |-> c.r, npage |-> c.ptr, refs |-> put_page(refs, c.ptr)]

\* The kthread on `cpu` enters time_cross_cpu_page_alloc_put.
time_cross_cpu_page_alloc_put_enter(cpu) ==
    /\ main_pc = "page_alloc_put_run"
    /\ tasks[cpu].pc = "start"
    /\ tasks' = [tasks EXCEPT ![cpu] = page_worker_enter(@, cpu)]
    /\ UNCHANGED <<config, main_pc, queue, producer_lock, consumer_lock,
                   page_refs, produced, consumed, destroyed, report>>

\* The loop test of line 188; on the enqueue side alloc_pages (line 192),
\* which may return NULL, then the producer lock; on the dequeue side the
\* consumer lock.
time_cross_cpu_page_alloc_put_loop(cpu) ==
    /\ main_pc = "page_alloc_put_run"
    /\ tasks[cpu].pc = "loop"
    /\ IF ~LoopLess(tasks[cpu].i, tasks[cpu].loops)
       THEN /\ tasks' = [tasks EXCEPT ![cpu] = worker_finish(@, "loop_end")]
            /\ UNCHANGED <<producer_lock, consumer_lock, page_refs>>
       ELSE IF enq_CPU(cpu)
       THEN /\ ~producer_lock
            /\ producer_lock' = TRUE
            /\ \E alloc_ok \in BOOLEAN :
                  LET a == IF alloc_ok THEN alloc_pages(page_refs)
                           ELSE [page |-> NULL, refs |-> page_refs]
                  IN  /\ page_refs' = a.refs
                      /\ tasks' = [tasks EXCEPT ![cpu].pc = "enq",
                                                ![cpu].page = a.page]
            /\ UNCHANGED consumer_lock
       ELSE /\ ~consumer_lock
            /\ consumer_lock' = TRUE
            /\ tasks' = [tasks EXCEPT ![cpu].pc = "deq"]
            /\ UNCHANGED <<producer_lock, page_refs>>
    /\ UNCHANGED <<config, main_pc, queue, produced, consumed, destroyed,
                   report>>

\* ptr_ring_produce under the producer lock, and the rest of the iteration.
time_cross_cpu_page_alloc_put_enqueue(cpu) ==
    /\ main_pc = "page_alloc_put_run"
    /\ tasks[cpu].pc = "enq"
    /\ LET e == page_worker_enq(tasks[cpu], queue)
       IN  /\ tasks' = [tasks EXCEPT ![cpu] = e.t]
           /\ queue' = e.r
           /\ produced' = IF e.ok THEN Append(produced, tasks[cpu].page)
                          ELSE produced
    /\ producer_lock' = FALSE
    /\ UNCHANGED <<config, main_pc, consumer_lock, page_refs, consumed,
                   destroyed, report>>

\* ptr_ring_consume under the consumer lock, put_page, and the rest of the
\* iteration.
time_cross_cpu_page_alloc_put_dequeue(cpu) ==
    /\ main_pc = "page_alloc_put_run"
    /\ tasks[cpu].pc = "deq"
    /\ LET d == page_worker_deq(tasks[cpu], queue, page_refs)
       IN  /\ tasks' = [tasks EXCEPT ![cpu] = d.t]
           /\ queue' = d.r
           /\ page_refs' = d.refs
           /\ consumed' = IF d.npage # NULL THEN Append(consumed, d.npage)
                          ELSE consumed
    /\ consumer_lock' = FALSE
    /\ UNCHANGED <<config, main_pc, producer_lock, produced, destroyed,
                   report>>

\* ------------------------------------- cross-CPU page scenario: finish
\* run_parallel's tail (lines 233-236) once every kthread has returned,
\* then lines 339-341: ptr_ring_cleanup(queue, destructor_put_page) and
\* kfree(queue).
run_bench_cross_cpu_page_alloc_put_finish ==
    /\ main_pc = "page_alloc_put_run"
    /\ AllDone
    /\ report' = time_bench_print_stats_cpumask(tasks)
    /\ tasks' = [c \in CPUS |-> NoTask]
    /\ destroyed' = page_alloc_put_cleanup(queue)
    /\ page_refs' = destructor_put_page(page_refs, destroyed')
    /\ queue' = ZeroRing
    /\ main_pc' = "exit"
    /\ UNCHANGED <<config, producer_lock, consumer_lock, produced, consumed>>

\* ------------------------------------------------------------ specification
Next ==
    \/ run_bench_order0_compare
    \/ run_bench_baseline_ptr_ring_cross_cpu
    \/ \E cpu \in CPUS : time_cross_cpu_ptr_ring_enter(cpu)
    \/ \E cpu \in CPUS : time_cross_cpu_ptr_ring_loop(cpu)
    \/ \E cpu \in CPUS : time_cross_cpu_ptr_ring_enqueue(cpu)
    \/ \E cpu \in CPUS : time_cross_cpu_ptr_ring_dequeue(cpu)
    \/ run_bench_baseline_finish
    \/ run_bench_cross_cpu_page_alloc_put
    \/ \E cpu \in CPUS : time_cross_cpu_page_alloc_put_enter(cpu)
    \/ \E cpu \in CPUS : time_cross_cpu_page_alloc_put_loop(cpu)
    \/ \E cpu \in CPUS : time_cross_cpu_page_alloc_put_enqueue(cpu)
    \/ \E cpu \in CPUS : time_cross_cpu_page_alloc_put_dequeue(cpu)
    \/ run_bench_cross_cpu_page_alloc_put_finish

Spec == Init /\ [][Next]_vars

\* The steps of the module-init thread running run_timing_tests.
MainStep ==
    \/ run_bench_order0_compare
    \/ run_bench_baseline_ptr_ring_cross_cpu
    \/ run_bench_baseline_finish
    \/ run_bench_cross_cpu_page_alloc_put
    \/ run_bench_cross_cpu_page_alloc_put_finish

\* Some step of the kthread on `cpu`, in either cross-CPU scenario.
WorkerStep(cpu) ==
    \/ time_cross_cpu_ptr_ring_enter(cpu)
    \/ time_cross_cpu_ptr_ring_loop(cpu)
    \/ time_cross_cpu_ptr_ring_enqueue(cpu)
    \/ time_cross_cpu_ptr_ring_dequeue(cpu)
    \/ time_cross_cpu_page_alloc_put_enter(cpu)
    \/ time_cross_cpu_page_alloc_put_loop(cpu)
    \/ time_cross_cpu_page_alloc_put_enqueue(cpu)
    \/ time_cross_cpu_page_alloc_put_dequeue(cpu)

\* Scheduling: the module-init thread and the two kthreads, each bound to
\* its own CPU, keep running: none of them is stopped forever while it
\* has a step to take.
Fairness ==
    /\ WF_vars(MainStep)
    /\ \A cpu \in CPUS : WF_vars(WorkerStep(cpu))

FairSpec == Spec /\ Fairness


\* ------------------------------------------------------------- properties
\* The two workers of a cross-CPU scenario are running (or at the barrier).
Running == main_pc \in {"baseline_run", "page_alloc_put_run"}

\* Payloads (non-NULL pointers) among a sequence of pointers.
Payloads(seq) == SelectSeq(seq, LAMBDA x : x # NULL)

\* C1 -- FIFO: the i-th successful consume returns the payload of the i-th
\* successful produce (prefill produces first), for every i up to the
\* number of successful consumes.  NULL pointers handed to ptr_ring_produce
\* are not counted as payloads.
C1_Fifo ==
    /\ Len(consumed) <= Len(Payloads(produced))
    /\ \A i \in 1..Len(consumed) : consumed[i] = Payloads(produced)[i]

\* C2 -- Capacity: the ring never holds more than q_size live entries, and
\* while the workers run the payloads produced and not yet consumed number
\* between 0 and q_size.
C2_Capacity ==
    /\ Live(queue) \in 0..q_size
    /\ Running => (Len(Payloads(produced)) - Len(consumed)) \in 0..q_size

\* C2 witness: the ring is full again after the consumer took entries.
C2_Witness ==
    /\ Running
    /\ q_size >= 2
    /\ Len(consumed) >= 1
    /\ Live(queue) = q_size

\* C3 -- Full-queue boundary: ptr_ring_produce on a ring holding q_size
\* live entries fails; the ring is unchanged (count, producer index, slots)
\* and the worker leaves its loop by finish_early without counting the
\* iteration.
C3_FullBoundary ==
    [][\A c \in CPUS :
          (tasks[c].pc = "enq" /\ tasks'[c].pc # "enq" /\ Live(queue) = q_size)
          => /\ queue' = queue
             /\ produced' = produced
             /\ tasks'[c].pc = "done"
             /\ tasks'[c].exit = "finish_early"
             /\ tasks'[c].loops_cnt = tasks[c].loops_cnt]_vars

\* C3 witness: the enqueue worker ended on a full ring.
C3_Witness ==
    /\ main_pc = "baseline_run"
    /\ tasks[0].pc = "done"
    /\ tasks[0].exit = "finish_early"
    /\ Live(queue) = q_size

\* C4 -- Empty-queue boundary: ptr_ring_consume on a ring with no live entry
\* returns NULL; the ring is unchanged (consumer index, count), nothing is
\* put, and the worker leaves its loop by finish_early.
C4_EmptyBoundary ==
    [][\A c \in CPUS :
          (tasks[c].pc = "deq" /\ tasks'[c].pc # "deq" /\ Live(queue) = 0)
          => /\ queue' = queue
             /\ consumed' = consumed
             /\ page_refs' = page_refs
             /\ tasks'[c].pc = "done"
             /\ tasks'[c].exit = "finish_early"
             /\ tasks'[c].loops_cnt = tasks[c].loops_cnt]_vars

\* C4 witness: the dequeue worker ended on an empty ring after taking
\* entries.
C4_Witness ==
    /\ main_pc = "baseline_run"
    /\ tasks[1].pc = "done"
    /\ tasks[1].exit = "finish_early"
    /\ tasks[1].loops_cnt >= 1
    /\ Live(queue) = 0


\* Pointers held in the slots of a ring.
InRing(r) == {r.queue[k] : k \in 1..r.size} \ {NULL}

\* The elements of a sequence.
Range(seq) == {seq[k] : k \in 1..Len(seq)}

\* C5 -- Teardown: when the page scenario ends with K payloads in the ring,
\* ptr_ring_cleanup hands exactly those K payloads to the destroy callback,
\* each once, none of them a payload a consumer took.
C5_Teardown ==
    [][(main_pc = "page_alloc_put_run" /\ main_pc' = "exit")
       => /\ Len(destroyed') = Live(queue)
          /\ Range(destroyed') = InRing(queue)
          /\ Range(destroyed') \cap Range(consumed) = {}]_vars

\* C6 (as stated) -- with loops = 2^31 nothing happens: no worker is
\* started, no ring is built or filled, no record is touched.
C6_RejectedBeforeSpawn ==
    loops = BigLoops
    => /\ \A c \in CPUS : tasks[c] = NoTask
       /\ produced = <<>>
       /\ queue = ZeroRing

\* C6 (amended) -- with loops = 2^31 the ring is built and prefilled and
\* both workers are started; each worker sets its role tag and returns 0
\* from the guard: no timestamp, no iteration, no produce or consume, no
\* lock taken.
C6_RejectedInWorker ==
    loops = BigLoops
    => /\ \A c \in CPUS :
             /\ tasks[c].pc \in {"none", "start", "done"}
             /\ tasks[c].pc = "done" => tasks[c].exit = "guard"
             /\ ~tasks[c].started /\ ~tasks[c].stopped
             /\ tasks[c].i = 0 /\ tasks[c].loops_cnt = 0
             /\ tasks[c].invoked_cnt = 0 /\ tasks[c].ret = 0
       /\ consumed = <<>>
       /\ Running => Len(produced) = prefill
       /\ ~producer_lock /\ ~consumer_lock
       /\ \A k \in 1..Len(report) :
             report[k].invoked_cnt = 0 /\ report[k].ret = 0

\* C6 witness: the guard rejected the enqueue worker of a prefilled ring,
\* its role tag already written.
C6_Witness ==
    /\ loops = BigLoops
    /\ Running
    /\ Len(produced) >= 1
    /\ tasks[0].pc = "done"
    /\ tasks[0].exit = "guard"
    /\ tasks[0].step = 1

\* C7 (as stated) -- prefill >= q_size: the scenario fails and no worker is
\* started.
C7_PrefillGeCapacity ==
    prefill >= q_size => ~Running /\ \A c \in CPUS : tasks[c] = NoTask

\* C7 (amended) -- prefill > q_size: init_queue fails on the produce beyond
\* the ring's capacity and no worker is started.
C7_PrefillGtCapacity ==
    prefill > q_size => ~Running /\ \A c \in CPUS : tasks[c] = NoTask

\* C7 witness: the baseline scenario was attempted with prefill > q_size
\* and given up after q_size produces.
C7_Witness ==
    /\ prefill > q_size
    /\ FlagSet(run_flags, bit_run_bench_ptr_ring_baseline)
    /\ main_pc = "page_alloc_put"
    /\ Len(produced) = q_size

\* C8 -- a failed alloc_pages in the timed loop is never stored in the ring
\* nor counted: no NULL is among the pointers successfully produced.
C8_NoNullProduced == \A k \in 1..Len(produced) : produced[k] # NULL

\* C9 -- the j-th prefill alloc_pages fails: the scenario ends without
\* starting a worker, the destroy callback runs exactly once for each of the
\* j-1 pages already in the ring (every page ends with no reference), and
\* run_timing_tests goes on.
C9_PrefillAllocFailure ==
    [][(/\ main_pc = "page_alloc_put"
        /\ FlagSet(run_flags, bit_run_bench_cross_cpu_page_alloc_put)
        /\ Len(produced') < prefill
        /\ Len(page_refs') = Len(produced'))
       => /\ main_pc' = "exit"
          /\ \A c \in CPUS : tasks'[c] = NoTask
          /\ destroyed' = produced'
          /\ \A k \in 1..Len(page_refs') : page_refs'[k] = 0]_vars

\* C9 witness: the third (or a later) prefill allocation failed with room
\* left in the ring; the pages before it were destroyed.
C9_Witness ==
    /\ main_pc = "exit"
    /\ report = <<>>
    /\ Len(produced) >= 2
    /\ Len(produced) < prefill
    /\ Len(produced) < q_size
    /\ Len(page_refs) = Len(produced)
    /\ destroyed = produced

\* Successful ring operations of the worker on cpu c in the running
\* scenario (init_queue succeeded, so `prefill` produces came before).
Ops(c) == IF enq_CPU(c) THEN Len(produced) - prefill ELSE Len(consumed)

\* n <= l and n < l for a small n and a uint32_t l
LeqU32(n, l) == LoopLess(n, l) \/ U32(n) = l

\* C10 (as stated) -- a finished worker: the completed count is the number
\* of its successful ring operations, at most rec->loops, below it only
\* after finish_early, and time_bench_stop has run.
C10_WorkerRecord ==
    \A c \in CPUS :
       tasks[c].pc = "done"
       => /\ tasks[c].ret = Ops(c)
          /\ LeqU32(tasks[c].ret, tasks[c].loops)
          /\ LoopLess(tasks[c].ret, tasks[c].loops)
                => tasks[c].exit = "finish_early"
          /\ tasks[c].stopped

\* C10 (amended) -- a worker the guard let through finishes as stated, with
\* invoked_cnt the completed count; a worker the guard rejected finishes
\* with count 0 and neither time_bench_start nor time_bench_stop.
C10_WorkerRecordGuarded ==
    \A c \in CPUS :
       tasks[c].pc = "done"
       => IF tasks[c].exit = "guard"
          THEN /\ tasks[c].loops.hi * 2 >= LIMB
               /\ tasks[c].ret = 0 /\ Ops(c) = 0
               /\ ~tasks[c].started /\ ~tasks[c].stopped
          ELSE /\ tasks[c].ret = Ops(c)
               /\ tasks[c].invoked_cnt = tasks[c].ret
               /\ LeqU32(tasks[c].ret, tasks[c].loops)
               /\ LoopLess(tasks[c].ret, tasks[c].loops)
                     <=> tasks[c].exit = "finish_early"
               /\ tasks[c].started /\ tasks[c].stopped

\* C10 witness: the enqueue worker ended early on a full ring after at
\* least one produce, the dequeue worker completed all its iterations.
C10_Witness ==
    /\ Running
    /\ tasks[0].pc = "done" /\ tasks[0].exit = "finish_early"
    /\ tasks[0].ret >= 1
    /\ tasks[1].pc = "done" /\ tasks[1].exit = "loop_end"
    /\ tasks[1].ret >= 1


\* ------------------------------------------------ end-to-end scenario
\* The baseline scenario alone, with the figures of the end-to-end example:
\* a ring of 100 slots prefilled with 50 entries and 200 loops per worker
\* (run_timing_tests lines 346-364 with these numbers in place of
\* 32000 / 8000 and the module parameter loops = 200).
InitE2E ==
    /\ loops = U32(200)
    /\ run_flags = Pow2(bit_run_bench_ptr_ring_baseline)
    /\ q_size = 100
    /\ prefill = 50
    /\ main_pc = "order0"
    /\ queue = ZeroRing
    /\ producer_lock = FALSE
    /\ consumer_lock = FALSE
    /\ tasks = [c \in CPUS |-> NoTask]
    /\ page_refs = <<>>
    /\ produced = <<>>
    /\ consumed = <<>>
    /\ destroyed = <<>>
    /\ report = <<>>

\* run_timing_tests with only the baseline bit set: the other two
\* scenarios are skipped at their run_or_return gates.
NextE2E ==
    \/ run_bench_order0_compare
    \/ run_bench_baseline_ptr_ring_cross_cpu
    \/ \E cpu \in CPUS : time_cross_cpu_ptr_ring_enter(cpu)
    \/ \E cpu \in CPUS : time_cross_cpu_ptr_ring_loop(cpu)
    \/ \E cpu \in CPUS : time_cross_cpu_ptr_ring_enqueue(cpu)
    \/ \E cpu \in CPUS : time_cross_cpu_ptr_ring_dequeue(cpu)
    \/ run_bench_baseline_finish
    \/ run_bench_cross_cpu_page_alloc_put

SpecE2E == InitE2E /\ [][NextE2E]_vars

\* ------------------------------------------------ loop counts at the guard
\* Loop counts around the threshold of the guard of lines 118-122 /
\* 180-184: 1, 2^16-1, 2^16, 2^31-2, 2^31-1, 2^31, 2^31+1, 2^32-1.
GuardLoopsSet ==
    { U32(1),
      [hi |-> 0, lo |-> LIMB - 1],
      [hi |-> 1, lo |-> 0],
      [hi |-> LIMB \div 2 - 1, lo |-> LIMB - 2],
      [hi |-> LIMB \div 2 - 1, lo |-> LIMB - 1],
      BigLoops,
      [hi |-> LIMB \div 2, lo |-> 1],
      [hi |-> LIMB - 1, lo |-> LIMB - 1] }

\* Module load with one of these loop counts and only cross-CPU scenarios
\* selected.
InitGuard ==
    /\ loops \in GuardLoopsSet
    /\ run_flags \in {2, 4, 6}
    /\ q_size \in 1..MaxQSize
    /\ prefill \in 0..MaxPrefill
    /\ main_pc = "order0"
    /\ queue = ZeroRing
    /\ producer_lock = FALSE
    /\ consumer_lock = FALSE
    /\ tasks = [c \in CPUS |-> NoTask]
    /\ page_refs = <<>>
    /\ produced = <<>>
    /\ consumed = <<>>
    /\ destroyed = <<>>
    /\ report = <<>>

\* run_timing_tests, each worker followed for its first MaxIter iterations
\* only (a loop count that passes the guard can be as large as 2^31-1).
NextGuard ==
    \/ run_bench_order0_compare
    \/ run_bench_baseline_ptr_ring_cross_cpu
    \/ \E cpu \in CPUS : time_cross_cpu_ptr_ring_enter(cpu)
    \/ \E cpu \in CPUS : /\ tasks[cpu].i < MaxIter
                         /\ time_cross_cpu_ptr_ring_loop(cpu)
    \/ \E cpu \in CPUS : time_cross_cpu_ptr_ring_enqueue(cpu)
    \/ \E cpu \in CPUS : time_cross_cpu_ptr_ring_dequeue(cpu)
    \/ run_bench_baseline_finish
    \/ run_bench_cross_cpu_page_alloc_put
    \/ \E cpu \in CPUS : time_cross_cpu_page_alloc_put_enter(cpu)
    \/ \E cpu \in CPUS : /\ tasks[cpu].i < MaxIter
                         /\ time_cross_cpu_page_alloc_put_loop(cpu)
    \/ \E cpu \in CPUS : time_cross_cpu_page_alloc_put_enqueue(cpu)
    \/ \E cpu \in CPUS : time_cross_cpu_page_alloc_put_dequeue(cpu)
    \/ run_bench_cross_cpu_page_alloc_put_finish

GuardSpec == InitGuard /\ [][NextGuard]_vars

\* C11 -- End-to-end scenario as stated: with capacity 100, prefill 50 and
\* 200 loops, whenever both workers have finished at least one of them has
\* completed fewer than the 200 requested iterations.
C11_SomeWorkerEndsEarly ==
    (main_pc = "baseline_run" /\ AllDone)
        => \E c \in CPUS : tasks[c].ret < 200

\* C11 (amended) -- with capacity 100, prefill 50 and 200 loops a worker
\* may or may not end early: a worker that ends with fewer than 200
\* iterations left through finish_early after at least 50 successful
\* operations, and the two completed counts p (producer) and c (consumer)
\* always satisfy 0 <= 50 + p - c <= 100.
C11_EarlyOnlyAfterFifty ==
    (main_pc = "baseline_run" /\ AllDone) =>
        /\ \A c \in CPUS :
              tasks[c].ret < 200 =>
                 /\ tasks[c].exit = "finish_early"
                 /\ tasks[c].ret >= 50
        /\ 50 + tasks[0].ret - tasks[1].ret >= 0
        /\ 50 + tasks[0].ret - tasks[1].ret <= 100
        /\ Live(queue) = 50 + tasks[0].ret - tasks[1].ret

\* Both workers have ended early at the smallest possible counts: the
\* producer filled the 50 free slots, the consumer then emptied the ring.
C11_Witness ==
    /\ main_pc = "baseline_run" /\ AllDone
    /\ tasks[0].exit = "finish_early" /\ tasks[0].ret = 50
    /\ tasks[1].exit = "finish_early" /\ tasks[1].ret = 100


\* C12 -- Prefill round trip: while the producer has produced nothing, a
\* ring prefilled with prefill < q_size payloads hands them back in prefill
\* order, holds prefill minus the number of consumes so far, and once
\* prefill consumes have succeeded the ring is empty and the next consume
\* finds it empty (the consumer leaves through finish_early, the ring
\* and the consumed payloads are unchanged).
C12_PrefillRoundTrip ==
    [][ (Running /\ prefill < q_size /\ tasks[0].loops_cnt = 0) =>
          /\ Len(consumed) <= prefill
          /\ consumed = SubSeq(produced, 1, Len(consumed))
          /\ Live(queue) = prefill - Len(consumed)
          /\ Len(consumed) = prefill =>
                /\ \A k \in 1..queue.size : queue.queue[k] = NULL
                /\ \A c \in CPUS :
                      (tasks[c].pc = "deq" /\ tasks'[c].pc # "deq") =>
                          /\ tasks'[c].exit = "finish_early"
                          /\ tasks'[c].ret = prefill
                          /\ consumed' = consumed
                          /\ Live(queue') = 0
      ]_vars

\* The consumer has taken all the prefilled pages (at least two) and found
\* the ring empty at its next consume, the producer not having produced.
C12_Witness ==
    /\ main_pc = "page_alloc_put_run"
    /\ prefill >= 2 /\ prefill < q_size
    /\ tasks[0].loops_cnt = 0
    /\ Len(consumed) = prefill
    /\ tasks[1].exit = "finish_early"


\* C13 -- Lock independence: the producer lock is held exactly while the
\* enqueue worker (CPU 0) is inside ptr_ring_produce and the consumer lock
\* exactly while the dequeue worker (CPU 1) is inside ptr_ring_consume;
\* a worker that has not returned can always take its next step, whatever
\* lock the other worker holds and whether the ring is full or empty.
C13_LockIndependence ==
    Running =>
        /\ producer_lock <=> (tasks[0].pc = "enq")
        /\ consumer_lock <=> (tasks[1].pc = "deq")
        /\ tasks[0].pc # "deq" /\ tasks[1].pc # "enq"
        /\ \A c \in CPUS : tasks[c].pc # "done" => ENABLED WorkerStep(c)

\* The enqueue worker is about to call ptr_ring_produce while the dequeue
\* worker holds the consumer lock.
C13_Witness ==
    /\ Running
    /\ tasks[0].pc = "loop" /\ LoopLess(tasks[0].i, tasks[0].loops)
    /\ tasks[1].pc = "deq" /\ consumer_lock
    /\ ENABLED time_cross_cpu_ptr_ring_loop(0)


C15_Termination ==
    /\ [](\A c \in CPUS : LeqU32(tasks[c].i, tasks[c].loops))
    /\ [](\A c \in CPUS : tasks[c].loops_cnt <= tasks[c].i)
    /\ <>(main_pc = "exit")
    /\ (Running /\ AllDone) ~> (~Running /\ queue = ZeroRing)
    /\ (main_pc = "baseline_run" /\ AllDone)
          ~> (main_pc = "page_alloc_put" /\ Len(report) = 2)

\* run_timing_tests has returned after a cross-CPU scenario in which one
\* worker stopped early and the other one ran all its loops.
C15_Witness ==
    /\ main_pc = "exit"
    /\ Len(report) = 2
    /\ \E k \in 1..2 : report[k].invoked_cnt < loops.lo
    /\ \E k \in 1..2 : report[k].invoked_cnt = loops.lo
    /\ loops.lo >= 2


\* The values of run_flags (3 bits) that have bit 0, bit 1, bit 2 set.
WithOrder0Bit == {1, 3, 5, 7}
WithBaselineBit == {2, 3, 6, 7}
WithPageAllocPutBit == {4, 5, 6, 7}

\* C16 -- Scenario independence: at each of the three gates of
\* run_timing_tests, whatever the other bits and whatever happened before,
\* a scenario whose bit is clear changes nothing (no ring, no kthread, no
\* page, no ring operation, no report) and control passes to the next
\* gate; a scenario whose bit is set runs: the single-CPU loop is invoked
\* with `loops`, a cross-CPU scenario either starts its two kthreads on a
\* ring of q_size slots holding the prefill, or gives up in init_queue
\* and frees the ring.  Workers only ever run in a scenario whose bit is
\* set.
C16_ScenarioIndependence ==
    [][ /\ main_pc = "order0" =>
            /\ main_pc' = "baseline"
            /\ IF run_flags \in WithOrder0Bit
               THEN Len(report') = 1 /\ report'[1].loops = loops
               ELSE UNCHANGED <<queue, tasks, page_refs, produced,
                                consumed, destroyed, report>>
        /\ main_pc = "baseline" =>
              IF run_flags \in WithBaselineBit
              THEN \/ /\ main_pc' = "baseline_run"
                      /\ queue'.size = q_size /\ Live(queue') = prefill
                      /\ \A c \in CPUS : tasks'[c].pc = "start"
                   \/ /\ main_pc' = "page_alloc_put"
                      /\ queue' = ZeroRing /\ tasks' = tasks
                      /\ Len(produced') <= prefill
              ELSE /\ main_pc' = "page_alloc_put"
                   /\ UNCHANGED <<queue, tasks, page_refs, produced,
                                  consumed, destroyed, report>>
        /\ main_pc = "page_alloc_put" =>
              IF run_flags \in WithPageAllocPutBit
              THEN \/ /\ main_pc' = "page_alloc_put_run"
                      /\ queue'.size = q_size /\ Live(queue') = prefill
                      /\ Len(page_refs') = prefill
                      /\ \A c \in CPUS : tasks'[c].pc = "start"
                   \/ /\ main_pc' = "exit"
                      /\ queue' = ZeroRing /\ tasks' = tasks
                      /\ Len(produced') <= prefill
              ELSE /\ main_pc' = "exit"
                   /\ UNCHANGED <<queue, tasks, page_refs, produced,
                                  consumed, destroyed, report>>
        /\ main_pc = "baseline_run" => run_flags \in WithBaselineBit
        /\ main_pc = "page_alloc_put_run" => run_flags \in WithPageAllocPutBit
        /\ run_flags' = run_flags
      ]_vars

\* The baseline scenario has run and its producer ended early; the order-0
\* bit is clear, the real-payload bit is set, and at its gate the
\* real-payload scenario can start its workers.
C16_Witness ==
    /\ main_pc = "page_alloc_put"
    /\ run_flags = 6
    /\ Len(report) = 2
    /\ report[1].invoked_cnt < loops.lo
    /\ ENABLED (/\ run_bench_cross_cpu_page_alloc_put
                /\ main_pc' = "page_alloc_put_run")


\* The live slots of ring r are exactly the n slots from the consumer index
\* up to the producer index (n = 0: empty, n = r.size: full).
RingShape(r) ==
    \E n \in 0..r.size :
       /\ (r.consumer + n) % r.size = r.producer
       /\ \A k \in 1..r.size :
             r.queue[k] # NULL <=> (k - 1 - r.consumer + r.size) % r.size < n

\* C17 -- Queue shape: while the workers run, the live slots are exactly
\* the range from the consumer index to the producer index (modulo the
\* ring size, full and empty included), the producer index moves only
\* in a successful ptr_ring_produce and the consumer index only in a
\* successful ptr_ring_consume, each forward by one slot modulo the size.
C17_QueueShape ==
    [][ (Running /\ main_pc' = main_pc) =>
          /\ RingShape(queue) /\ RingShape(queue')
          /\ queue'.producer # queue.producer =>
                /\ queue'.producer = (queue.producer + 1) % queue.size
                /\ tasks[0].pc = "enq"
                /\ tasks'[0].loops_cnt = tasks[0].loops_cnt + 1
          /\ queue'.consumer # queue.consumer =>
                /\ queue'.consumer = (queue.consumer + 1) % queue.size
                /\ tasks[1].pc = "deq"
                /\ tasks'[1].loops_cnt = tasks[1].loops_cnt + 1
          /\ (tasks[0].pc = "enq" /\ tasks'[0].loops_cnt # tasks[0].loops_cnt)
                => queue'.producer # queue.producer \/ queue.size = 1
          /\ (tasks[1].pc = "deq" /\ tasks'[1].loops_cnt # tasks[1].loops_cnt)
                => queue'.consumer # queue.consumer \/ queue.size = 1
      ]_vars


\* C18 -- No leak, no double release: no page's reference count ever
\* drops below zero, and when run_timing_tests has returned every page
\* allocated (in the prefill, or by the producer in the timed loop) has
\* been released exactly once, its reference count being zero.
C18_NoLeakNoDoubleRelease ==
    /\ \A k \in 1..Len(page_refs) : page_refs[k] >= 0
    /\ main_pc = "exit" => \A k \in 1..Len(page_refs) : page_refs[k] = 0


\* C19 -- Conservation: while the workers run, the number of live ring
\* entries is the prefill plus the successful produces (the enqueue
\* worker's loops_cnt) minus the successful consumes (the dequeue worker's
\* loops_cnt); when both workers have returned, the entries left for the
\* teardown number prefill + producer's completed count - consumer's
\* completed count.
C19_Conservation ==
    Running =>
        /\ (\A c \in CPUS : tasks[c].pc \in {"loop", "enq", "deq", "done"})
              => Live(queue) = prefill + tasks[0].loops_cnt
                                       - tasks[1].loops_cnt
        /\ AllDone => Live(queue) = prefill + tasks[0].ret - tasks[1].ret


\* l <= 2^31 - 1, for a uint32_t l given as limbs.
AtMostInt32Max(l) == l.hi < LIMB \div 2

\* Half of a value below 2^33 given as limbs <<l2, l1, l0>>.
HalfU64(a) ==
    [hi |-> (a[1] * LIMB + a[2]) \div 2,
     lo |-> ((a[2] % 2) * LIMB + a[3]) \div 2]

\* C20 -- Loop-count guard threshold: a cross-CPU worker is in its timed
\* loop (or has left it through the loop) only with rec->loops <= 2^31-1,
\* and every worker with a larger rec->loops has returned through the
\* guard: completed count 0, no iteration, no time stamp, and no produce,
\* consume or lock taken in the scenario.  The doubled value is exact (its
\* half is rec->loops again, bit 32 is kept for rec->loops >= 2^31).
C20_GuardThreshold ==
    /\ \A c \in CPUS :
          /\ tasks[c].pc \in {"loop", "enq", "deq"}
                => AtMostInt32Max(tasks[c].loops) /\ tasks[c].started
          /\ tasks[c].pc = "done"
                => (tasks[c].exit = "guard" <=> ~AtMostInt32Max(tasks[c].loops))
          /\ (tasks[c].pc = "done" /\ tasks[c].exit = "guard")
                => /\ tasks[c].ret = 0
                   /\ tasks[c].i = 0 /\ tasks[c].loops_cnt = 0
                   /\ ~tasks[c].started /\ ~tasks[c].stopped
          /\ tasks[c].pc # "none" => tasks[c].loops = loops
    /\ (Running /\ ~AtMostInt32Max(loops))
          => /\ Len(produced) = prefill /\ consumed = <<>>
             /\ Live(queue) = prefill
             /\ ~producer_lock /\ ~consumer_lock
    /\ HalfU64(Mul2_u64(loops)) = loops
    /\ Mul2_u64(loops)[1] = (IF AtMostInt32Max(loops) THEN 0 ELSE 1)
    /\ LoopsTooBig(loops) <=> ~AtMostInt32Max(loops)

\* With rec->loops = 2^31-1, the largest count that passes the guard, both
\* workers are in their timed loop and the producer has produced.
C20_Witness ==
    /\ Running
    /\ loops = [hi |-> LIMB \div 2 - 1, lo |-> LIMB - 1]
    /\ \A c \in CPUS : tasks[c].pc \in {"loop", "enq", "deq"}
    /\ tasks[0].loops_cnt >= 1

=============================================================================
